---------------------------- MODULE Spec2Model ----------------------------
(***************************************************************************)
(* A state-machine model of pymap-copy.py, the one-shot IMAP mailbox       *)
(* replicator.  The script is one sequential thread of control; every      *)
(* action below is one step of the script (a statement group or one loop   *)
(* iteration), translated from the lines named in the comment above it.   *)
(*                                                                         *)
(* Text (folder names, flags, command-line strings, payloads) is modelled  *)
(* as sequences of one-character strings so that lower(), replace(),       *)
(* startswith(), split() and the case-insensitive sort are computed, not   *)
(* assumed.  Python's None is the string "None" where the value is a       *)
(* character or an identifier, and the empty sequence << >> where the      *)
(* value is an optional integer.                                           *)
(***************************************************************************)
EXTENDS Integers, Sequences, FiniteSets, TLC

(***************************************************************************)
(* Bounds of the model.                                                    *)
(***************************************************************************)
\* Largest --buffer-size drawn by Init.
MaxBufferSize == 2
\* How many empty buffers of one folder the model follows.
MaxEmptyBuffers == 2
\* Number of successive runs of the program against the same two servers.
MaxRuns == 2

(***************************************************************************)
(* Characters and strings.                                                 *)
(***************************************************************************)
None == "None"

UpperChars == <<"A","B","C","D","E","F","G","H","I","J","K","L","M","N","O","P","Q","R","S","T","U","V","W","X","Y","Z">>

LowerChars == <<"a","b","c","d","e","f","g","h","i","j","k","l","m","n","o","p","q","r","s","t","u","v","w","x","y","z">>

\* The characters the model uses, in ASCII order (Python compares str by code point).
AsciiOrder == <<"\n", " ", "*", ",", ".", "/", ":">> \o UpperChars \o <<"\\">> \o LowerChars

Ord(c) == CHOOSE i \in 1..Len(AsciiOrder) : AsciiOrder[i] = c

\* str.lower() / bytes.lower() on one character.
LowerChar(c) == IF \E i \in 1..26 : UpperChars[i] = c THEN LowerChars[CHOOSE i \in 1..26 : UpperChars[i] = c] ELSE c

\* str.lower() / bytes.lower().
Lower(s) == [i \in 1..Len(s) |-> LowerChar(s[i])]

\* str.startswith(p).
StartsWith(s, p) == Len(p) <= Len(s) /\ SubSeq(s, 1, Len(p)) = p

\* str.endswith('*').
EndsWithStar(s) == Len(s) >= 1 /\ s[Len(s)] = "*"

\* s[:-1]
DropLast(s) == SubSeq(s, 1, Len(s) - 1)

\* str.replace(old, new) for a one-character old and new.
Replace(s, old, new) == [i \in 1..Len(s) |-> IF s[i] = old THEN new ELSE s[i]]

\* Index of the first occurrence of character c in s, 0 when absent.
IndexOf(s, c) == IF \E i \in 1..Len(s) : s[i] = c THEN CHOOSE i \in 1..Len(s) : s[i] = c /\ \A j \in 1..(i-1) : s[j] # c ELSE 0

RECURSIVE Split(_, _)
\* str.split(sep): the list of pieces between separators (empty pieces kept).
Split(s, sep) == IF IndexOf(s, sep) = 0 THEN <<s>> ELSE <<SubSeq(s, 1, IndexOf(s, sep) - 1)>> \o Split(SubSeq(s, IndexOf(s, sep) + 1, Len(s)), sep)

\* Python's ordering on str: lexicographic by code point.
StrLess(a, b) == \E k \in 1..(Len(b)) : /\ k - 1 <= Len(a)
                                        /\ SubSeq(a, 1, k - 1) = SubSeq(b, 1, k - 1)
                                        /\ (Len(a) = k - 1 \/ Ord(a[k]) < Ord(b[k]))

\* Python slices on lists: l[:n] and the rest after del l[:n], for any integer n.
SliceEnd(l, n) == IF n >= 0 THEN (IF n < Len(l) THEN n ELSE Len(l)) ELSE (IF Len(l) + n > 0 THEN Len(l) + n ELSE 0)

Take(l, n) == SubSeq(l, 1, SliceEnd(l, n))

\* A faulty del l[:n] that removes one element more; C24 tells it from
\* Python's.
DropOneMore(l, n) == SubSeq(l, SliceEnd(l, n) + 2, Len(l))

Drop(l, n) == SubSeq(l, SliceEnd(l, n) + 1, Len(l))

\* The elements of a sequence.
Range(s) == {s[i] : i \in 1..Len(s)}

RECURSIVE SumSeq(_)
SumSeq(s) == IF s = <<>> THEN 0
             ELSE IF Len(s) = 1 THEN s[1]
             ELSE SumSeq(SubSeq(s, 1, Len(s) \div 2)) + SumSeq(SubSeq(s, Len(s) \div 2 + 1, Len(s)))


(***************************************************************************)
(* Program constants.                                                      *)
(***************************************************************************)
\* SPECIAL_FOLDER_FLAGS (line 148).
fArchive == <<"\\","A","r","c","h","i","v","e">>

fJunk == <<"\\","J","u","n","k">>

fDrafts == <<"\\","D","r","a","f","t","s">>

fTrash == <<"\\","T","r","a","s","h">>

fSent == <<"\\","S","e","n","t">>

SPECIAL_FOLDER_FLAGS == {fArchive, fJunk, fDrafts, fTrash, fSent}

\* denied_flags as initialised on line 149.
fRecentLower == <<"\\","r","e","c","e","n","t">>

\* The keepalive refresh period of line 333.
IdleRefreshRows == 10000

(***************************************************************************)
(* The command line (args), as argparse leaves it (lines 83-138).          *)
(* Optional integers are << >> (None) or <<n>>; optional strings and lists *)
(* are << >> when absent.                                                  *)
(***************************************************************************)
DefaultArgs == [dry_run |-> FALSE, list |-> FALSE, incremental |-> FALSE, abort_on_error |-> FALSE,
                buffer_size |-> 2, denied_flags |-> <<>>, redirect |-> <<>>, ignore_quota |-> FALSE,
                ignore_folder_flags |-> FALSE, max_line_length |-> <<>>, max_mail_size |-> <<>>,
                skip_empty_folders |-> FALSE, source_root |-> <<>>, source_mailbox |-> <<>>,
                destination_root |-> <<>>, destination_root_merge |-> FALSE,
                destination_no_subscribe |-> FALSE]

(***************************************************************************)
(* Mailbox contents the runs are checked on.                               *)
(***************************************************************************)
fSeen == <<"\\","S","e","e","n">>

fSeenUpper == <<"\\","S","E","E","N">>

fRecent == <<"\\","R","e","c","e","n","t">>

fFlagged == <<"\\","F","l","a","g","g","e","d">>

\* A message on a server: what FETCH reports for it.  size is RFC822.SIZE,
\* envelope says whether the response carries an ENVELOPE key.
Msg(size, envelope, msg_id, flags, rfc822, date) == [size |-> size, envelope |-> envelope, msg_id |-> msg_id, flags |-> flags, rfc822 |-> rfc822, date |-> date]

mPlain == Msg(2, TRUE, "m1", <<fSeen, fRecent>>, <<"x","\n","x">>, "d1")

mOther == Msg(2, TRUE, "m2", <<fFlagged>>, <<"x","\n","x">>, "d2")

mThird == Msg(2, TRUE, "m3", <<>>, <<"x","\n","x">>, "d3")

mSameId == Msg(3, TRUE, "m1", <<fSeenUpper>>, <<"y","\n","y","y">>, "d4")

mZero == Msg(0, TRUE, "m5", <<fSeen>>, <<>>, "d5")

mBig == Msg(5, TRUE, "m6", <<>>, <<"x","\n","x","\n","x">>, "d6")

mLongLine == Msg(3, TRUE, "m7", <<fFlagged, fRecent>>, <<"x","x","x">>, "d7")

mNoEnvelope == Msg(2, FALSE, None, <<fSeen>>, <<"x","\n","x">>, "d8")

mNoMessageId == Msg(2, TRUE, None, <<>>, <<"x","\n","x">>, "d9")

MsgKinds == {mPlain, mSameId, mZero, mBig, mLongLine, mNoEnvelope}

\* A folder on a server, as LIST and SELECT/SEARCH/FETCH show it; a message's
\* UID is its position in mails.
Folder(name, flags, mails) == [name |-> name, flags |-> flags, mails |-> mails]

Server(delimiter, folders) == [delimiter |-> delimiter, folders |-> folders]

nInbox == <<"I","n">>

nB == <<"B">>

nAc(d) == <<"a", d, "c">>

nGesendet == <<"G","e","s">>

nSentItems == <<"S","e","n","t"," ","I">>

nRoot == <<"R">>

nRx(d) == <<"R", d, "x">>

nZ == <<"Z">>

NoQuota == [source_cap |-> FALSE, destination_cap |-> FALSE, source_usage |-> 1, source_limit |-> 4, destination_usage |-> 1, destination_limit |-> 4]

LoginOK == [source |-> TRUE, destination |-> TRUE]

World(a, src, dst, quota, login, faults) == [args |-> a, source |-> src, destination |-> dst, quota |-> quota, login |-> login, faults |-> faults]

(***************************************************************************)
(* Pure computations of the script.                                        *)
(***************************************************************************)
\* Lines 149 and 179-180: the effective denied flags, a list.
DeniedFlags(denied_flags_arg) == IF denied_flags_arg = <<>> THEN <<fRecentLower>> ELSE <<fRecentLower>> \o [i \in 1..Len(Split(Lower(denied_flags_arg), ",")) |-> <<"\\">> \o Split(Lower(denied_flags_arg), ",")[i]]

\* A faulty flag filter that compares the flags as written, without
\* lowercasing them; C2 tells it from the script's.
AppendFlagsCaseSensitive(flags, denied) == SelectSeq(flags, LAMBDA flag : flag \notin Range(denied))

\* Line 578-579: the flags handed to APPEND.
AppendFlags(flags, denied) == SelectSeq(flags, LAMBDA flag : Lower(flag) \notin Range(denied))

\* Line 573: any([len(line) > max_line_length for line in msg.split(b'\n')]).
AnyLineLonger(msg, limit) == \E i \in 1..Len(Split(msg, "\n")) : Len(Split(msg, "\n")[i]) > limit

\* Line 583: the server's APPEND response is recognised as a success.
RecognisedSuccess(response) == response \in {"append completed", "(success)"}

\* IMAPClient.list_folders(directory): LIST directory "*", the folders whose
\* name starts with directory, each as (flags, delimiter, name).
ListFolders(server, directory) == SelectSeq(server.folders, LAMBDA f : StartsWith(f.name, directory))

\* The value of dict d at key k after d[k] = v.
DictSet(d, k, v) == (k :> v) @@ d

\* The names (keys) of a folder manifest, in insertion order.
Names(folders) == [i \in 1..Len(folders) |-> folders[i].name]

\* db[side]['folders'][name]
Entry(folders, name) == folders[CHOOSE i \in 1..Len(folders) : folders[i].name = name]

\* A faulty quota check that also stops the run when the free space equals
\* the source usage; C9 tells it from the script's.
QuotaAbortAtEqual(source_quota, destination_quota, ignore_quota) == /\ source_quota # <<>>
                                                                    /\ destination_quota # <<>>
                                                                    /\ destination_quota[1].limit - destination_quota[1].usage <= source_quota[1].usage
                                                                    /\ ~ignore_quota

\* Lines 242-243 and 247: the quota check stops the run.
QuotaAbort(source_quota, destination_quota, ignore_quota) == /\ source_quota # <<>>
                                                             /\ destination_quota # <<>>
                                                             /\ destination_quota[1].limit - destination_quota[1].usage < source_quota[1].usage
                                                             /\ ~ignore_quota

\* Lines 219-224: source_quota, << >> for None.
SourceQuota(q) == IF q.source_cap THEN <<[usage |-> q.source_usage, limit |-> q.source_limit]>> ELSE <<>>

\* Lines 229-236: destination_quota, << >> for None.
DestinationQuota(q, ignore_quota) == IF q.destination_cap /\ ~ignore_quota THEN <<[usage |-> q.destination_usage, limit |-> q.destination_limit]>> ELSE <<>>

\* Line 415: redirection.split(':', 1), <<whole>> when there is no colon.
SplitRule(r) == IF IndexOf(r, ":") = 0 THEN <<r>> ELSE <<SubSeq(r, 1, IndexOf(r, ":") - 1), SubSeq(r, IndexOf(r, ":") + 1, Len(r))>>

\* Line 418: the source folders a wildcard rule matches, in manifest order.
WildcardMatches(names, r_source) == SelectSeq(names, LAMBDA f : StartsWith(f, DropLast(r_source)))

RECURSIVE SetAll(_, _, _)
\* Lines 420-421: redirections[folder] = r_destination for every match.
SetAll(d, keys, v) == IF keys = <<>> THEN d ELSE SetAll(DictSet(d, Head(keys), v), Tail(keys), v)

\* A faulty loop body that does not report a wildcard matching no folder;
\* C10 tells it from the script's.
RedirectStepSilentWildcard(acc, rule, names) == LET parts == SplitRule(rule)
                                                    r_source == parts[1]
                                                    r_destination == parts[2]
                                                IN  IF acc.error # "" THEN acc
                                                    ELSE IF Len(parts) < 2 THEN [acc EXCEPT !.error = "NameError"]
                                                    ELSE IF EndsWithStar(r_source)
                                                         THEN [acc EXCEPT !.redirections = DictSet(SetAll(acc.redirections, WildcardMatches(names, r_source), r_destination), r_source, r_destination)]
                                                    ELSE IF r_source \notin Range(names)
                                                         THEN [acc EXCEPT !.not_found = Append(acc.not_found, r_source), !.redirections = DictSet(acc.redirections, r_source, r_destination)]
                                                         ELSE [acc EXCEPT !.redirections = DictSet(acc.redirections, r_source, r_destination)]

\* Lines 414-432: one iteration of the loop over args.redirect, on the
\* accumulator [redirections, not_found, error].  A rule without a colon
\* raises ValueError at the unpacking; its handler then reads the unbound
\* name e, so the script dies with NameError.
RedirectStep(acc, rule, names) == LET parts == SplitRule(rule)
                                      r_source == parts[1]
                                      r_destination == parts[2]
                                  IN  IF acc.error # "" THEN acc
                                      ELSE IF Len(parts) < 2 THEN [acc EXCEPT !.error = "NameError"]
                                      ELSE IF EndsWithStar(r_source)
                                           THEN IF WildcardMatches(names, r_source) # <<>>
                                                THEN [acc EXCEPT !.redirections = DictSet(SetAll(acc.redirections, WildcardMatches(names, r_source), r_destination), r_source, r_destination)]
                                                ELSE [acc EXCEPT !.not_found = Append(acc.not_found, r_source), !.redirections = DictSet(acc.redirections, r_source, r_destination)]
                                      ELSE IF r_source \notin Range(names)
                                           THEN [acc EXCEPT !.not_found = Append(acc.not_found, r_source), !.redirections = DictSet(acc.redirections, r_source, r_destination)]
                                           ELSE [acc EXCEPT !.redirections = DictSet(acc.redirections, r_source, r_destination)]

RECURSIVE RedirectLoop(_, _, _)
\* Lines 410-432.
RedirectLoop(acc, rules, names) == IF rules = <<>> THEN acc ELSE RedirectLoop(RedirectStep(acc, Head(rules), names), Tail(rules), names)

Redirections(rules, names) == RedirectLoop([redirections |-> <<>>, not_found |-> <<>>, error |-> ""], rules, names)

\* Line 441: the stable insertion of one name into a list sorted by key x.lower().
InsertByLower(sorted, x) == LET k == Cardinality({i \in 1..Len(sorted) : ~StrLess(Lower(x), Lower(sorted[i]))})
                            IN  SubSeq(sorted, 1, k) \o <<x>> \o SubSeq(sorted, k + 1, Len(sorted))

RECURSIVE SortedByLower(_)
\* Line 441: sorted(db['source']['folders'], key=lambda x: x.lower()).
SortedByLower(names) == IF names = <<>> THEN <<>> ELSE InsertByLower(SortedByLower(DropLast(names)), names[Len(names)])

\* Lines 443: the delimiter rewrite.
Rewritten(sf_name, sdelim, ddelim) == Replace(sf_name, sdelim, ddelim)

\* Lines 445-449: the destination root prefix.
Rooted(name, root, merge, ddelim) == IF root # <<>> /\ (~merge \/ (~StartsWith(name, root \o <<ddelim>>) /\ name # root)) THEN root \o <<ddelim>> \o name ELSE name

\* Lines 455-458: the first destination manifest folder carrying sf_flag, else df_name unchanged.
LinkOne(df_name, sf_flag, dfolders) == IF \E i \in 1..Len(dfolders) : sf_flag \in Range(dfolders[i].flags) THEN dfolders[CHOOSE i \in 1..Len(dfolders) : sf_flag \in Range(dfolders[i].flags) /\ \A j \in 1..(i - 1) : sf_flag \notin Range(dfolders[j].flags)].name ELSE df_name

RECURSIVE Linked(_, _, _)
\* Lines 453-458: the loop over the source folder's flags.
Linked(df_name, sf_flags, dfolders) == IF sf_flags = <<>> THEN df_name ELSE Linked(IF Head(sf_flags) \in SPECIAL_FOLDER_FLAGS THEN LinkOne(df_name, Head(sf_flags), dfolders) ELSE df_name, Tail(sf_flags), dfolders)

\* A faulty mapping that applies the special-use link after the
\* redirection; C8 tells it from the script's.
DfNameLinkLast(sf, a, sdelim, ddelim, dfolders, redirs) == LET rooted == Rooted(Rewritten(sf.name, sdelim, ddelim), a.destination_root, a.destination_root_merge, ddelim)
                                                               redirected == IF sf.name \in DOMAIN redirs THEN redirs[sf.name] ELSE rooted
                                                           IN  IF ~a.ignore_folder_flags THEN Linked(redirected, sf.flags, dfolders) ELSE redirected

\* Lines 443-462: df_name for one source folder of the manifest.
DfName(sf, a, sdelim, ddelim, dfolders, redirs) == LET rooted == Rooted(Rewritten(sf.name, sdelim, ddelim), a.destination_root, a.destination_root_merge, ddelim)
                                                       linked == IF ~a.ignore_folder_flags THEN Linked(rooted, sf.flags, dfolders) ELSE rooted
                                                   IN  IF sf.name \in DOMAIN redirs THEN redirs[sf.name] ELSE linked

(***************************************************************************)
(* The runs the model explores: command lines, the two servers' contents,  *)
(* and which failures the environment may inject.                          *)
(***************************************************************************)
\* Transfer runs: one source folder holding up to two messages of every kind.
MailLists == {<<>>} \cup {<<a>> : a \in MsgKinds} \cup {<<a, b>> : a \in MsgKinds, b \in MsgKinds}

TransferWorlds == {World([DefaultArgs EXCEPT !.dry_run = dry, !.incremental = inc, !.max_mail_size = mms, !.max_line_length = mll, !.abort_on_error = abort, !.buffer_size = b],
                         Server(".", <<Folder(nInbox, <<>>, mails)>>),
                         Server("/", <<Folder(nInbox, <<>>, dmails)>>),
                         NoQuota, LoginOK, {"append"}) :
                        dry \in BOOLEAN, inc \in BOOLEAN, mms \in {<<>>, <<3>>}, mll \in {<<>>, <<2>>}, abort \in BOOLEAN, b \in 1..MaxBufferSize,
                        mails \in MailLists, dmails \in {<<>>, <<mPlain>>}}

\* Folder creation runs: two source folders the destination does not have.
CreateWorlds == {World([DefaultArgs EXCEPT !.max_mail_size = <<9>>, !.dry_run = dry, !.abort_on_error = abort, !.destination_no_subscribe = nosub, !.skip_empty_folders = skip, !.incremental = inc],
                       Server(".", <<Folder(nB, <<>>, m1), Folder(nAc("."), <<fTrash>>, <<mOther>>), Folder(nInbox, <<>>, <<>>)>>),
                       Server("/", <<Folder(nInbox, <<>>, <<mNoMessageId>>)>>),
                       NoQuota, LoginOK, faults) :
                      dry \in BOOLEAN, abort \in BOOLEAN, nosub \in BOOLEAN, skip \in BOOLEAN, inc \in BOOLEAN,
                      m1 \in {<<>>, <<mPlain>>, <<mNoEnvelope>>, <<mPlain, mNoEnvelope>>},
                      faults \in {{"create", "subscribe", "append", "logout"}, {"interrupt"}}}

\* Flag filtering runs: --denied-flags values against messages' flags.
DeniedFlagsArgs == {<<>>, <<"s","e","e","n">>, <<"S","e","e","n",",","F","L","A","G","G","E","D">>, <<"s","e","e","n",","," ","r","e","c","e","n","t">>}

FlagLists == {<<>>, <<fSeen, fFlagged, fRecent>>, <<fSeenUpper, fRecentLower>>, <<fFlagged, fSeen>>}

FlagWorlds == {World([DefaultArgs EXCEPT !.max_mail_size = <<9>>, !.denied_flags = df],
                     Server(".", <<Folder(nInbox, <<>>, <<Msg(2, TRUE, "m1", fl1, <<"x">>, "d1"), Msg(2, TRUE, "m2", fl2, <<"x">>, "d2")>>)>>),
                     Server("/", <<Folder(nInbox, <<>>, <<>>)>>),
                     NoQuota, LoginOK, {}) :
                    df \in DeniedFlagsArgs, fl1 \in FlagLists, fl2 \in FlagLists}

\* Folder mapping runs: delimiters, destination root, redirections,
\* special-use flags and the source-mailbox filter.
SourceTrees(d) == {<<Folder(nB, <<>>, <<mPlain>>), Folder(nAc(d), <<>>, <<mOther>>)>>,
                   <<Folder(nGesendet, <<fSent>>, <<mPlain>>), Folder(nB, <<fJunk, fTrash>>, <<mOther>>)>>,
                   <<Folder(nRx(d), <<>>, <<mPlain>>), Folder(nRoot, <<>>, <<mOther>>), Folder(nAc(d), <<fSeen>>, <<>>)>>}

DestinationTrees(d) == {<<Folder(nInbox, <<>>, <<>>)>>,
                        <<Folder(nInbox, <<>>, <<>>), Folder(nSentItems, <<fSent>>, <<mThird>>), Folder(nRoot, <<fTrash>>, <<>>)>>,
                        <<Folder(nRoot, <<>>, <<>>), Folder(nRx(d), <<fSent>>, <<>>), Folder(nZ, <<fTrash>>, <<>>)>>}

RedirectArgs == {<<>>,
                 <<<<"B",":","Z">>>>,
                 <<<<"a","*",":","Z">>>>,
                 <<<<"G","e","s",":","Z",":","q">>>>,
                 <<<<"R","*",":","R">>, <<"R",":","Z">>>>,
                 <<<<"Q",":","Z">>>>,
                 <<<<"B",":","Z">>, <<"q","*",":","Z">>>>,
                 <<<<"B","Z">>>>}

SourceMailboxArgs == {<<>>, <<nB>>, <<nGesendet, nRoot>>}

RootArgs == {[root |-> <<>>, merge |-> FALSE], [root |-> nRoot, merge |-> FALSE], [root |-> nRoot, merge |-> TRUE]}

MappingWorldsFor(sd, dd) == {World([DefaultArgs EXCEPT !.max_mail_size = <<9>>, !.incremental = TRUE, !.destination_root = r.root, !.destination_root_merge = r.merge,
                                                       !.redirect = red, !.ignore_folder_flags = iff, !.source_mailbox = sm],
                                   Server(sd, st), Server(dd, dt), NoQuota, LoginOK, {}) :
                                  r \in RootArgs, red \in RedirectArgs, iff \in BOOLEAN, sm \in SourceMailboxArgs,
                                  st \in SourceTrees(sd), dt \in DestinationTrees(dd)}

MappingWorlds == MappingWorldsFor(".", "/") \cup MappingWorldsFor("/", ".") \cup MappingWorldsFor("/", "/")

\* Quota runs: both capabilities, usages and --ignore-quota.
QuotaWorlds == {World([DefaultArgs EXCEPT !.max_mail_size = <<9>>, !.ignore_quota = iq],
                      Server(".", <<Folder(nB, <<>>, <<mPlain>>)>>),
                      Server("/", <<Folder(nInbox, <<>>, <<>>)>>),
                      [source_cap |-> sc, destination_cap |-> dc, source_usage |-> su, source_limit |-> 4, destination_usage |-> du, destination_limit |-> 4],
                      LoginOK, {}) :
                     iq \in BOOLEAN, sc \in BOOLEAN, dc \in BOOLEAN, su \in {1, 2, 3}, du \in {1, 2, 3}}

\* Login failures and list mode.
StartWorlds == {World([DefaultArgs EXCEPT !.max_mail_size = <<9>>, !.list = l, !.source_mailbox = sm],
                      Server(".", <<Folder(nB, <<>>, <<mPlain>>)>>),
                      Server("/", <<Folder(nInbox, <<>>, <<>>)>>),
                      NoQuota, [source |-> ls, destination |-> ld], {}) :
                     l \in BOOLEAN, sm \in {<<>>, <<nB>>}, ls \in BOOLEAN, ld \in BOOLEAN}

\* Long mailboxes, listed with --list: one more message than the keepalive
\* interval on one side, without an ENVELOPE in the first one or with.
LongFolder(first) == Folder(nB, <<>>, [i \in 1..(IdleRefreshRows + 1) |-> IF i = 1 THEN first ELSE mPlain])

KeepaliveWorlds == {World([DefaultArgs EXCEPT !.list = TRUE, !.buffer_size = IdleRefreshRows + 1], Server(".", <<src>>), Server("/", <<dst>>), NoQuota, LoginOK, {}) :
                     <<src, dst>> \in {<<LongFolder(mNoEnvelope), Folder(nInbox, <<>>, <<>>)>>,
                                      <<LongFolder(mPlain), Folder(nInbox, <<>>, <<>>)>>,
                                      <<Folder(nB, <<>>, <<mPlain>>), LongFolder(mPlain)>>}}

\* A destination that answers a FETCH of ENVELOPE without one for one of
\* its messages, with --incremental and without.
EnvelopeWorlds == {World([DefaultArgs EXCEPT !.max_mail_size = <<9>>, !.incremental = inc],
                         Server(".", <<Folder(nInbox, <<>>, <<mPlain>>)>>),
                         Server("/", <<Folder(nInbox, <<>>, <<mOther, mNoEnvelope>>)>>),
                         NoQuota, LoginOK, {}) :
                        inc \in BOOLEAN}

\* Buffer sizes, as argparse's type=int of line 94 accepts them (negative,
\* zero, positive), against a source folder of three messages or none and
\* a destination folder of two.
BufferWorlds == {World([DefaultArgs EXCEPT !.max_mail_size = <<9>>, !.buffer_size = b, !.incremental = inc],
                       Server(".", <<Folder(nInbox, <<>>, m)>>),
                       Server("/", <<Folder(nInbox, <<>>, <<mPlain, mOther>>)>>),
                       NoQuota, LoginOK, faults) :
                      b \in {-1, 0} \cup 1..MaxBufferSize, inc \in BOOLEAN, m \in {<<>>, <<mPlain, mOther, mThird>>}, faults \in {{}, {"interrupt"}}}

Worlds == TransferWorlds \cup CreateWorlds \cup FlagWorlds \cup MappingWorlds \cup QuotaWorlds \cup StartWorlds \cup KeepaliveWorlds \cup EnvelopeWorlds \cup BufferWorlds

(***************************************************************************)
(* State.                                                                  *)
(***************************************************************************)
VARIABLES world, dstSrv, run, prev, pc, exc, source_delimiter, destination_delimiter, db, stats, todo, name, mails, redirections, order, sf_name, df_name, buffers, rows, idle, log, fetches, wire

\* world: the command line, the source server, the destination server as the
\*        first run finds it, the quota answers, the login answers, the faults;
\* dstSrv: the destination server's folders now;  run: which run this is;
\* prev: how the previous run ended;  pc: where the script is;  exc: the
\* exception that killed it;  db, stats, source_delimiter,
\* destination_delimiter, redirections, sf_name, df_name: the script's
\* variables of those names;  todo, name, mails: the enumeration loops'
\* iterator, folder and remaining UIDs;  order, buffers, rows: the transfer
\* loops' iterators;  idle: which sessions are in IDLE;  log: the CREATE,
\* SUBSCRIBE and APPEND commands this run issued on the destination;
\* fetches: the number of transfer-phase FETCH commands this run issued;
\* wire: every IMAP command this run issued after login, on either session,
\*       in order, with the rows the enumeration loops went through.
vars == <<world, dstSrv, run, prev, pc, exc, source_delimiter, destination_delimiter, db, stats, todo, name, mails, redirections, order, sf_name, df_name, buffers, rows, idle, log, fetches, wire>>

args == world.args

\* Lines 150-177: the script's variables before the first statement runs.
InitStats == [source_mails |-> 0, destination_mails |-> 0, processed |-> 0, errors |-> <<>>,
              skipped_folders |-> [already_exists |-> 0, empty |-> 0, dry_run |-> 0, by_mailbox |-> 0],
              skipped_mails |-> [already_exists |-> 0, zero_size |-> 0, max_size |-> 0, max_line_length |-> 0, no_envelope |-> 0],
              copied_mails |-> 0, copied_folders |-> 0]

InitDb == [source |-> <<>>, destination |-> <<>>]

NoPrev == [finished |-> FALSE, clean |-> FALSE]

\* exc while no exception was raised.
NoException == [type |-> "", line |-> 0]

\* The state in which the script starts, for a run out of W.
Started(W) ==
        /\ world \in W
        /\ dstSrv = world.destination.folders
        /\ run = 1
        /\ prev = NoPrev
        /\ pc = "login"
        /\ exc = NoException
        /\ source_delimiter = None
        /\ destination_delimiter = None
        /\ db = InitDb
        /\ stats = InitStats
        /\ todo = <<>>
        /\ name = <<>>
        /\ mails = <<>>
        /\ redirections = <<>>
        /\ order = <<>>
        /\ sf_name = <<>>
        /\ df_name = <<>>
        /\ buffers = <<>>
        /\ rows = <<>>
        /\ idle = [source |-> FALSE, destination |-> FALSE]
        /\ log = <<>>
        /\ fetches = 0
        /\ wire = <<>>

Init == Started(Worlds)

\* The runs that differ in the buffer size only.
BufferInit == Started(BufferWorlds)

\* The script dies with an uncaught exception of that type raised on that line.
Crash(type, line) == pc' = "crashed" /\ exc' = [type |-> type, line |-> line]

\* The UIDs SEARCH returns for a folder: 1..n in order.
Uids(folder) == [i \in 1..Len(folder.mails) |-> i]

\* db[side]['folders'] with the entry called n replaced by e.
WithEntry(folders, n, e) == [i \in 1..Len(folders) |-> IF folders[i].name = n THEN e ELSE folders[i]]

\* The part of the script a statement at that position belongs to.
PartOf(at) == CASE at \in {"start_idle", "src_list", "src_buf"} -> "source enumeration"
                [] at \in {"dst_list", "dst_buf"} -> "destination enumeration"
                [] at \in {"end_idle", "folder", "buffer", "message"} -> "transfer"
                [] OTHER -> "logout"

\* Neither session is in IDLE.
NoIdle == [source |-> FALSE, destination |-> FALSE]

NoRows == [source |-> 0, destination |-> 0]

\* The other session.
Other(s) == IF s = "source" THEN "destination" ELSE "source"

\* One command on the wire: the session, the command, for a FETCH the
\* number of rows it returned, how it ended ("ok", or as in the log), the
\* part of the script that issued it, which sessions were in IDLE when it
\* was issued, whether it is a SELECT with readonly=True (every
\* select_folder call of the script, lines 263, 298, 364 and 442, is), and,
\* for each session, how many rows the other session's enumeration loop has
\* gone through since this session last entered IDLE.
Wire(s, cmd, n) == [s |-> s, cmd |-> cmd, n |-> n, result |-> "ok", part |-> PartOf(pc), idle |-> NoIdle, readonly |-> (cmd = "SELECT"), quiet |-> NoRows]

\* Not a command: the enumeration loop on session s (lines 313-334 and
\* 375-382) has gone through the next n rows of the FETCH response.
Rows(s, n) == Wire(s, "rows", n)

\* A command issued by the helpers of lines 260-280.
Keeper(s, cmd) == [Wire(s, cmd, 0) EXCEPT !.part = "keeper"]

\* A faulty helper that selects a folder but never sends IDLE; C14 tells it
\* from the script's.
StartIdleWithoutIdle(s) == <<Keeper(s, "LIST"), Keeper(s, "SELECT")>>

\* Lines 260-264, start_imap_idle(client): LIST, SELECT of the first folder
\* read-only, IDLE.
StartIdle(s) == <<Keeper(s, "LIST"), Keeper(s, "SELECT"), Keeper(s, "IDLE")>>

\* A faulty helper that forgets idle_done(); C17 tells it from the script's.
EndIdleWithoutDone(s) == <<>>

\* Lines 267-271, end_imap_idle(client): DONE.
EndIdle(s) == <<Keeper(s, "DONE")>>

\* Which sessions are in IDLE after command c: IDLE puts the session in
\* IDLE, DONE takes it out.
IdleAfter(status, c) == IF c.cmd = "IDLE" THEN [status EXCEPT ![c.s] = TRUE] ELSE IF c.cmd = "DONE" THEN [status EXCEPT ![c.s] = FALSE] ELSE status

RECURSIVE IdleAfterAll(_, _)
\* Which sessions are in IDLE after the commands of seq, in order.
IdleAfterAll(status, seq) == IF seq = <<>> THEN status ELSE IdleAfterAll(IdleAfter(status, Head(seq)), Tail(seq))

\* The rows gone through during each session's IDLE, after entry c: IDLE
\* starts a new count for its session, and rows on one session count for
\* the other while that one is in IDLE.
QuietAfter(q, status, c) == IF c.cmd = "IDLE" THEN [q EXCEPT ![c.s] = 0]
                            ELSE IF c.cmd = "rows" /\ status[Other(c.s)] THEN [q EXCEPT ![Other(c.s)] = @ + c.n]
                            ELSE q

RECURSIVE Stamped(_, _, _)
\* The entries of seq, each with the sessions in IDLE when it is issued and
\* the rows gone through during each session's IDLE up to and including it.
Stamped(status, q, seq) == IF seq = <<>> THEN <<>>
                           ELSE <<[Head(seq) EXCEPT !.idle = status, !.quiet = QuietAfter(q, status, Head(seq))]>>
                                \o Stamped(IdleAfter(status, Head(seq)), QuietAfter(q, status, Head(seq)), Tail(seq))

\* Lines 274-280, restart_imap_idle(client).
RestartIdle(s) == EndIdle(s) \o StartIdle(s)

\* The wire's share of the destination commands added to the log.
LoggedOnWire(old, new) == [i \in 1..(Len(new) - Len(old)) |-> [Wire("destination", new[Len(old) + i].cmd, 0) EXCEPT !.result = new[Len(old) + i].result]]

\* The script issues the commands of seq, in order.
Issue(seq) == /\ wire' = wire \o Stamped(idle, IF wire = <<>> THEN NoRows ELSE wire[Len(wire)].quiet, seq)
              /\ idle' = IdleAfterAll(idle, seq)

(***************************************************************************)
(* Connection, login and quota (lines 185-255).                            *)
(***************************************************************************)
\* Lines 185-212: connect and log in on both sides; exit() unless both logins succeed.
Login == /\ pc = "login"
         /\ pc' = IF world.login.source /\ world.login.destination THEN "quota" ELSE "exit_login"
         /\ UNCHANGED <<world, dstSrv, run, prev, exc, source_delimiter, destination_delimiter, db, stats, todo, name, mails, redirections, order, sf_name, df_name, buffers, rows, idle, log, fetches, wire>>

\* Lines 217-255: read both quotas and compare; exit() on insufficient quota.
Quota == /\ pc = "quota"
         /\ pc' = IF QuotaAbort(SourceQuota(world.quota), DestinationQuota(world.quota, args.ignore_quota), args.ignore_quota) THEN "exit_quota" ELSE "start_idle"
         /\ UNCHANGED <<world, dstSrv, run, prev, exc, source_delimiter, destination_delimiter, db, stats, todo, name, mails, redirections, order, sf_name, df_name, buffers, rows, idle, log, fetches, wire>>

(***************************************************************************)
(* Source enumeration (lines 283-340).                                     *)
(***************************************************************************)
\* Lines 283 and 287: start_imap_idle(destination), then LIST on the source.
\* list_folders()[0] of line 262 raises IndexError on a server without folders.
StartIdleDestination == /\ pc = "start_idle"
                        /\ IF dstSrv = <<>>
                           THEN /\ Crash("IndexError", 262)
                                /\ Issue(<<Keeper("destination", "LIST")>>)
                                /\ UNCHANGED todo
                           ELSE /\ Issue(StartIdle("destination") \o <<Wire("source", "LIST", 0)>>)
                                /\ todo' = ListFolders(world.source, args.source_root)
                                /\ pc' = "src_list"
                                /\ exc' = exc
                        /\ UNCHANGED <<world, dstSrv, run, prev, source_delimiter, destination_delimiter, db, stats, name, mails, redirections, order, sf_name, df_name, buffers, rows, log, fetches>>

\* Lines 287-307: one source folder up to its manifest entry; an empty
\* folder's while loop (line 310) ends at once.
SourceFolder == /\ pc = "src_list"
                /\ todo # <<>>
                /\ LET f == Head(todo)
                       skipped == \/ (args.source_mailbox # <<>> /\ f.name \notin Range(args.source_mailbox))
                                  \/ (f.mails = <<>> /\ args.skip_empty_folders)
                   IN  /\ todo' = Tail(todo)
                       /\ source_delimiter' = IF source_delimiter = None THEN world.source.delimiter ELSE source_delimiter
                       /\ db' = IF skipped THEN db ELSE [db EXCEPT !.source = Append(@, [name |-> f.name, flags |-> f.flags, mails |-> <<>>, size |-> 0, buffer |-> <<>>])]
                       /\ name' = IF skipped THEN name ELSE f.name
                       /\ mails' = IF skipped THEN <<>> ELSE Uids(f)
                       /\ pc' = IF skipped \/ f.mails = <<>> THEN "src_list" ELSE "src_buf"
                /\ Issue(IF args.source_mailbox # <<>> /\ Head(todo).name \notin Range(args.source_mailbox) THEN <<>> ELSE <<Wire("source", "SELECT", 0), Wire("source", "SEARCH", 0)>>)
                /\ UNCHANGED <<world, dstSrv, run, prev, exc, destination_delimiter, stats, redirections, order, sf_name, df_name, buffers, rows, log, fetches>>

RECURSIVE RowCounted(_, _, _, _, _)
\* Lines 313-326: the row of the response, among rows lo..hi, at which the
\* for loop counts its k-th mail: rows without an ENVELOPE are not counted.
RowCounted(chunk, onServer, k, lo, hi) == IF lo = hi THEN lo
                                          ELSE IF Cardinality({j \in 1..((lo + hi) \div 2) : onServer[chunk[j]].envelope}) >= k
                                               THEN RowCounted(chunk, onServer, k, lo, (lo + hi) \div 2)
                                               ELSE RowCounted(chunk, onServer, k, (lo + hi) \div 2 + 1, hi)

RECURSIVE RowsAndRefreshes(_, _, _)
\* Lines 313-334: the for loop goes through rows from..n of the response and
\* calls restart_imap_idle(destination) after each row in refresh.
RowsAndRefreshes(from, refresh, n) == IF from > n THEN <<>>
                                      ELSE IF refresh = {} THEN <<Rows("source", n - from + 1)>>
                                      ELSE LET next == CHOOSE i \in refresh : \A j \in refresh : i <= j
                                           IN  <<Rows("source", next - from + 1)>> \o RestartIdle("destination") \o RowsAndRefreshes(next + 1, refresh \ {next}, n)

\* Lines 310-336: one iteration of the while loop: record the buffer, FETCH
\* its metadata, file every row that has an ENVELOPE, and after every row
\* that makes source_mails a multiple of 10000 refresh the destination's
\* IDLE; drop the buffer.  IMAPClient.fetch returns {} for an empty UID
\* list without sending a command.  An iteration that slices nothing off
\* (buffer size <= 0) still appends an empty buffer; the model follows
\* MaxEmptyBuffers of them per folder.
SourceBuffer == /\ pc = "src_buf"
                /\ LET chunk == Take(mails, args.buffer_size)
                       onServer == Entry(world.source.folders, name).mails
                       e == Entry(db.source, name)
                       kept == {u \in Range(chunk) : onServer[u].envelope}
                       mails_ == [u \in kept |-> [size |-> onServer[u].size, msg_id |-> onServer[u].msg_id]] @@ e.mails
                       size_ == e.size + SumSeq([i \in 1..Len(chunk) |-> IF onServer[chunk[i]].envelope THEN onServer[chunk[i]].size ELSE 0])
                       count == stats.source_mails + Cardinality(kept)
                       refresh == {RowCounted(chunk, onServer, t - stats.source_mails, 1, Len(chunk)) : t \in {k \in (stats.source_mails + 1)..count : k % IdleRefreshRows = 0}}
                   IN  /\ chunk = <<>> => Cardinality({k \in 1..Len(e.buffer) : e.buffer[k] = <<>>}) < MaxEmptyBuffers
                       /\ db' = [db EXCEPT !.source = WithEntry(@, name, [e EXCEPT !.buffer = Append(@, chunk), !.mails = mails_, !.size = size_])]
                       /\ stats' = [stats EXCEPT !.source_mails = count, !.skipped_mails.no_envelope = @ + Len(chunk) - Cardinality(kept)]
                       /\ Issue(IF chunk = <<>> THEN <<>> ELSE <<Wire("source", "FETCH", Len(chunk))>> \o RowsAndRefreshes(1, refresh, Len(chunk)))
                       /\ mails' = Drop(mails, args.buffer_size)
                       /\ pc' = IF Drop(mails, args.buffer_size) = <<>> THEN "src_list" ELSE "src_buf"
                /\ UNCHANGED <<world, dstSrv, run, prev, exc, source_delimiter, destination_delimiter, todo, name, redirections, order, sf_name, df_name, buffers, rows, log, fetches>>

(***************************************************************************)
(* Destination enumeration (lines 343-387).                                *)
(***************************************************************************)
\* Lines 338-349: the source loop is over; end_imap_idle(destination),
\* start_imap_idle(source), LIST on the destination under the root.
Handoff == /\ pc = "src_list"
           /\ todo = <<>>
           /\ IF world.source.folders = <<>>
              THEN /\ Crash("IndexError", 262)
                   /\ Issue(EndIdle("destination") \o <<Keeper("source", "LIST")>>)
                   /\ todo' = todo
              ELSE /\ Issue(EndIdle("destination") \o StartIdle("source") \o <<[Wire("destination", "LIST", 0) EXCEPT !.part = PartOf("dst_list")]>>)
                   /\ todo' = ListFolders([folders |-> dstSrv], args.destination_root)
                   /\ pc' = "dst_list"
                   /\ exc' = exc
           /\ UNCHANGED <<world, dstSrv, run, prev, source_delimiter, destination_delimiter, db, stats, name, mails, redirections, order, sf_name, df_name, buffers, rows, log, fetches>>

\* Lines 349-365: one destination folder up to its manifest entry.  With a
\* source-mailbox filter the name is rewritten with the source delimiter,
\* which is still None when the source LIST returned nothing.
DestinationFolder == /\ pc = "dst_list"
                     /\ todo # <<>>
                     /\ LET f == Head(todo)
                            ddelim == IF destination_delimiter = None THEN world.destination.delimiter ELSE destination_delimiter
                            skipped == args.source_mailbox # <<>> /\ Replace(f.name, ddelim, source_delimiter) \notin Range(args.source_mailbox)
                        IN  /\ destination_delimiter' = ddelim
                            /\ todo' = Tail(todo)
                            /\ IF args.source_mailbox # <<>> /\ source_delimiter = None
                               THEN Crash("TypeError", 356) /\ UNCHANGED <<db, stats, name, mails>>
                               ELSE /\ db' = IF skipped THEN db ELSE [db EXCEPT !.destination = Append(@, [name |-> f.name, flags |-> f.flags, mails |-> <<>>, size |-> 0])]
                                    /\ stats' = IF skipped THEN [stats EXCEPT !.skipped_folders.by_mailbox = @ + 1] ELSE stats
                                    /\ name' = IF skipped THEN name ELSE f.name
                                    /\ mails' = IF skipped THEN <<>> ELSE Uids(f)
                                    /\ pc' = IF skipped \/ f.mails = <<>> THEN "dst_list" ELSE "dst_buf"
                                    /\ exc' = exc
                     /\ Issue(IF pc' = "crashed" \/ stats' # stats THEN <<>> ELSE <<Wire("destination", "SELECT", 0), Wire("destination", "SEARCH", 0)>>)
                     /\ UNCHANGED <<world, dstSrv, run, prev, source_delimiter, redirections, order, sf_name, df_name, buffers, rows, log, fetches>>

\* Lines 371-382: one iteration of the destination while loop.  In
\* incremental mode line 377 reads data[b'ENVELOPE'] of every row: the
\* first row without one has its size filed (lines 373-374) and then ends
\* the script with KeyError, before destination_mails counts it.
DestinationBuffer == /\ pc = "dst_buf"
                     /\ LET chunk == Take(mails, args.buffer_size)
                            onServer == Entry(dstSrv, name).mails
                            e == Entry(db.destination, name)
                            bad == IF args.incremental THEN {i \in 1..Len(chunk) : ~onServer[chunk[i]].envelope} ELSE {}
                            filed == IF bad = {} THEN chunk ELSE Take(chunk, CHOOSE i \in bad : \A j \in bad : i <= j)
                            counted == IF bad = {} THEN Len(chunk) ELSE Len(filed) - 1
                            mails_ == [u \in Range(filed) |-> [size |-> onServer[u].size, msg_id |-> IF args.incremental /\ onServer[u].envelope THEN onServer[u].msg_id ELSE None]] @@ e.mails
                            size_ == e.size + SumSeq([i \in 1..Len(filed) |-> onServer[filed[i]].size])
                        IN  /\ db' = [db EXCEPT !.destination = WithEntry(@, name, [e EXCEPT !.mails = mails_, !.size = size_])]
                            /\ stats' = [stats EXCEPT !.destination_mails = @ + counted]
                            /\ Issue(IF chunk = <<>> THEN <<>> ELSE <<Wire("destination", "FETCH", Len(chunk))>> \o (IF counted = 0 THEN <<>> ELSE <<Rows("destination", counted)>>))
                            /\ IF bad # {}
                               THEN Crash("KeyError", 377) /\ UNCHANGED mails
                               ELSE /\ mails' = Drop(mails, args.buffer_size)
                                    /\ pc' = IF Drop(mails, args.buffer_size) = <<>> THEN "dst_list" ELSE "dst_buf"
                                    /\ exc' = exc
                     /\ UNCHANGED <<world, dstSrv, run, prev, source_delimiter, destination_delimiter, todo, name, redirections, order, sf_name, df_name, buffers, rows, log, fetches>>

(***************************************************************************)
(* List mode and redirections (lines 385-438).                             *)
(***************************************************************************)
\* Lines 385-406: the destination loop is over; in list mode print and exit().
ListMode == /\ pc = "dst_list"
            /\ todo = <<>>
            /\ pc' = IF args.list THEN "exit_list" ELSE "redirect"
            /\ UNCHANGED <<world, dstSrv, run, prev, exc, source_delimiter, destination_delimiter, db, stats, todo, name, mails, redirections, order, sf_name, df_name, buffers, rows, idle, log, fetches, wire>>

\* Lines 410-436: build redirections; exit() when a rule's source is not found.
Redirect == /\ pc = "redirect"
            /\ LET r == Redirections(args.redirect, Names(db.source))
               IN  IF r.error # ""
                   THEN Crash(r.error, 429) /\ UNCHANGED redirections
                   ELSE /\ redirections' = r.redirections
                        /\ pc' = IF r.not_found # <<>> THEN "exit_not_found" ELSE "end_idle"
                        /\ exc' = exc
            /\ UNCHANGED <<world, dstSrv, run, prev, source_delimiter, destination_delimiter, db, stats, todo, name, mails, order, sf_name, df_name, buffers, rows, idle, log, fetches, wire>>

\* Lines 438-441: end_imap_idle(source); the transfer loop's order.
EndIdleSource == /\ pc = "end_idle"
                 /\ order' = SortedByLower(Names(db.source))
                 /\ pc' = "folder"
                 /\ Issue(EndIdle("source"))
                 /\ UNCHANGED <<world, dstSrv, run, prev, exc, source_delimiter, destination_delimiter, db, stats, todo, name, mails, redirections, sf_name, df_name, buffers, rows, log, fetches>>

(***************************************************************************)
(* The destination server's side of CREATE, SUBSCRIBE and APPEND.          *)
(***************************************************************************)
\* One command issued on the destination, as the log keeps it.  result is
\* "ok", "alreadyexists", "error" (the server refused) or "unknown" (APPEND
\* stored the message but answered with an unrecognised text).  The fields
\* after result are those of an APPEND: what was passed (flags, rfc822,
\* date), which source folder (sf_name, also kept for CREATE and SUBSCRIBE)
\* and message it was (uid, msg_id, src_flags, src_date), and whether the target folder already held that Message-ID
\* when the command was issued (dup).
Cmd(cmd, folder, result) == [cmd |-> cmd, folder |-> folder, result |-> result, flags |-> <<>>, rfc822 |-> <<>>, date |-> "", sf_name |-> <<>>, uid |-> 0, msg_id |-> "", src_flags |-> <<>>, src_date |-> "", dup |-> FALSE]

\* A CREATE or SUBSCRIBE issued for source folder sf.
FolderCmd(cmd, folder, result, sf) == [Cmd(cmd, folder, result) EXCEPT !.sf_name = sf]

\* Whether the server has a folder of that name.
OnServer(folders, n) == \E i \in 1..Len(folders) : folders[i].name = n

\* The Message-IDs a server folder holds.
ServerMsgIds(folders, n) == {Entry(folders, n).mails[i].msg_id : i \in 1..Len(Entry(folders, n).mails)}

\* The server after a successful CREATE.
Created(folders, n) == Append(folders, Folder(n, <<>>, <<>>))

\* The server after storing an APPENDed message.
Stored(folders, n, m) == WithEntry(folders, n, [Entry(folders, n) EXCEPT !.mails = Append(@, m)])

\* The answers a server may give to CREATE n.
CreateAnswers(folders, n, faults) == (IF OnServer(folders, n) THEN {"alreadyexists"} ELSE {"ok"}) \cup (IF "create" \in faults THEN {"error"} ELSE {}) \cup (IF "subscribe" \in faults /\ ~OnServer(folders, n) THEN {"subscribe_error"} ELSE {})

\* The answers a server may give to APPEND to folder n: a response text
\* (the message is stored; "done" stands for a text the script does not
\* know) or "NO" (it is not stored, and the client library raises).
AppendAnswers(folders, n, faults) == (IF OnServer(folders, n) THEN {"append completed", "(success)"} ELSE {"NO"}) \cup (IF "append" \in faults THEN {"NO"} \cup (IF OnServer(folders, n) THEN {"done"} ELSE {}) ELSE {})

(***************************************************************************)
(* Transfer (lines 440-622).                                               *)
(***************************************************************************)
\* Line 534-539 and 596-603: one record of stats['errors'].
ErrorRecord(exception, folder, id) == [exception |-> exception, folder |-> folder, id |-> id]

\* A faulty guard that creates missing folders in a dry run too; C3 tells it
\* from the script's.
CreateNeededInDryRun(exists, dry_run) == ~exists

\* Lines 464 and 479: CREATE is attempted for a folder the destination
\* manifest lacks, unless this is a dry run.
CreateNeeded(exists, dry_run) == ~exists /\ ~dry_run

\* Lines 441-505: one source folder up to its first buffer: SELECT, the
\* destination name, CREATE and SUBSCRIBE when the manifest lacks it, and
\* the dry run's continue of line 504.  abort_on_error turns a failed
\* CREATE or SUBSCRIBE into KeyboardInterrupt (line 502).
TransferFolder == /\ pc = "folder"
                  /\ order # <<>>
                  /\ IF destination_delimiter = None
                     THEN Crash("TypeError", 443) /\ UNCHANGED <<dstSrv, stats, order, sf_name, df_name, buffers, log>>
                     ELSE LET sf == Entry(db.source, Head(order))
                              df == DfName(sf, args, source_delimiter, destination_delimiter, db.destination, redirections)
                              exists == df \in Range(Names(db.destination))
                              next == order' = Tail(order) /\ pc' = "folder" /\ buffers' = <<>> /\ exc' = exc
                              transfer == IF args.dry_run THEN next ELSE order' = order /\ pc' = "buffer" /\ buffers' = sf.buffer /\ exc' = exc
                              failed == IF args.abort_on_error THEN order' = order /\ pc' = "logout_src" /\ buffers' = <<>> /\ exc' = [type |-> "KeyboardInterrupt", line |-> 502] ELSE next
                          IN  /\ sf_name' = sf.name
                              /\ df_name' = df
                              /\ IF ~CreateNeeded(exists, args.dry_run)
                                 THEN /\ stats' = IF exists THEN [stats EXCEPT !.skipped_folders.already_exists = @ + 1] ELSE stats
                                      /\ UNCHANGED <<dstSrv, log>>
                                      /\ transfer
                                 ELSE IF args.skip_empty_folders /\ DOMAIN sf.mails = {}
                                 THEN /\ stats' = [stats EXCEPT !.skipped_folders.empty = @ + 1]
                                      /\ next
                                      /\ UNCHANGED <<dstSrv, log>>
                                 ELSE \E answer \in CreateAnswers(dstSrv, df, world.faults) :
                                         CASE answer = "ok" \/ (answer = "subscribe_error" /\ args.destination_no_subscribe) ->
                                                 /\ dstSrv' = Created(dstSrv, df)
                                                 /\ log' = IF args.destination_no_subscribe THEN Append(log, FolderCmd("CREATE", df, "ok", sf.name)) ELSE log \o <<FolderCmd("CREATE", df, "ok", sf.name), FolderCmd("SUBSCRIBE", df, "ok", sf.name)>>
                                                 /\ stats' = [stats EXCEPT !.copied_folders = @ + 1]
                                                 /\ transfer
                                           [] answer = "subscribe_error" /\ ~args.destination_no_subscribe ->
                                                 /\ dstSrv' = Created(dstSrv, df)
                                                 /\ log' = log \o <<FolderCmd("CREATE", df, "ok", sf.name), FolderCmd("SUBSCRIBE", df, "error", sf.name)>>
                                                 /\ stats' = stats
                                                 /\ failed
                                           [] answer = "alreadyexists" ->
                                                 /\ dstSrv' = dstSrv
                                                 /\ log' = Append(log, FolderCmd("CREATE", df, "alreadyexists", sf.name))
                                                 /\ stats' = [stats EXCEPT !.skipped_folders.already_exists = @ + 1]
                                                 /\ transfer
                                           [] answer = "error" ->
                                                 /\ dstSrv' = dstSrv
                                                 /\ log' = Append(log, FolderCmd("CREATE", df, "error", sf.name))
                                                 /\ stats' = stats
                                                 /\ failed
                  /\ Issue(<<Wire("source", "SELECT", 0)>> \o LoggedOnWire(log, log'))
                  /\ UNCHANGED <<world, run, prev, source_delimiter, destination_delimiter, db, todo, name, mails, redirections, rows, fetches>>

\* Lines 507-511 and 612: the next buffer's FETCH on the source, or the
\* end of the folder.
TransferBuffer == /\ pc = "buffer"
                  /\ IF buffers = <<>>
                     THEN /\ order' = Tail(order)
                          /\ pc' = "folder"
                          /\ UNCHANGED <<buffers, rows, fetches>>
                     ELSE /\ rows' = Head(buffers)
                          /\ buffers' = Tail(buffers)
                          /\ fetches' = fetches + 1
                          /\ pc' = IF Head(buffers) = <<>> THEN "buffer" ELSE "message"
                          /\ order' = order
                  /\ Issue(IF buffers = <<>> \/ Head(buffers) = <<>> THEN <<>> ELSE <<Wire("source", "FETCH", Len(Head(buffers)))>>)
                  /\ UNCHANGED <<world, dstSrv, run, prev, exc, source_delimiter, destination_delimiter, db, stats, todo, name, mails, redirections, sf_name, df_name, log>>

\* The Message-IDs of a destination manifest entry (line 562).
ManifestMsgIds(e) == {e.mails[u].msg_id : u \in DOMAIN e.mails}

\* Lines 560-562: the incremental duplicate test.
IsDuplicate(incremental, df, dfolders, msg_id) == /\ incremental
                                                  /\ df \in Range(Names(dfolders))
                                                  /\ msg_id \in ManifestMsgIds(Entry(dfolders, df))

\* Lines 572-573: the line-length test.
LineTooLong(max_line_length, msg) == max_line_length # <<>> /\ max_line_length[1] # 0 /\ AnyLineLonger(msg, max_line_length[1])

\* How an APPEND ended, as the log keeps it: the server refused it, or
\* stored the message and answered with a known or an unknown text.
AppendResult(answer) == IF answer = "NO" THEN "error" ELSE IF RecognisedSuccess(answer) THEN "ok" ELSE "unknown"

\* A faulty outcome test that takes every response text for a success; C13
\* tells it from the script's.
AppendFailsWhenRefused(answer) == answer = "NO"

\* Lines 578-588: the APPEND raises IMAPClientError, in the library when the
\* server refuses it or on line 587 when the response text is not known.
AppendFails(answer) == answer = "NO" \/ ~RecognisedSuccess(answer)

\* A faulty call that leaves msg_time out, so that the server stamps the
\* message with its own clock; C11 tells it from the script's.
AppendArgumentsNoTime(folder, data, denied) == [folder |-> folder, msg |-> data.rfc822, flags |-> AppendFlags(data.flags, denied), msg_time |-> "now"]

\* Lines 578-579: the arguments of destination.append for one fetched row.
AppendArguments(folder, data, denied) == [folder |-> folder, msg |-> data.rfc822, flags |-> AppendFlags(data.flags, denied), msg_time |-> data.date]

\* Lines 512-610: one fetched row: the manifest lookup, the skip ladder,
\* APPEND and its outcome.
TransferMessage == /\ pc = "message"
                   /\ LET uid == Head(rows)
                          data == Entry(world.source.folders, sf_name).mails[uid]
                          e == Entry(db.source, sf_name)
                          size == e.mails[uid].size
                          msg_id == e.mails[uid].msg_id
                          call == AppendArguments(df_name, data, DeniedFlags(args.denied_flags))
                          next == rows' = Tail(rows) /\ pc' = (IF Tail(rows) = <<>> THEN "buffer" ELSE "message") /\ exc' = exc
                          abort == rows' = rows /\ pc' = "logout_src" /\ exc' = [type |-> "KeyboardInterrupt", line |-> 607]
                          command(result) == [Cmd("APPEND", call.folder, result) EXCEPT !.flags = call.flags, !.rfc822 = call.msg, !.date = call.msg_time, !.sf_name = sf_name, !.uid = uid, !.msg_id = msg_id, !.src_flags = data.flags, !.src_date = data.date, !.dup = OnServer(dstSrv, df_name) /\ msg_id \in ServerMsgIds(dstSrv, df_name)]
                          stored == Stored(dstSrv, call.folder, Msg(data.size, data.envelope, data.msg_id, call.flags, call.msg, call.msg_time))
                          failed == [stats EXCEPT !.errors = Append(@, ErrorRecord("IMAPClientError", df_name, msg_id)), !.processed = @ + 1]
                      IN  IF stats.source_mails = 0
                          THEN Crash("ZeroDivisionError", 512) /\ UNCHANGED <<dstSrv, stats, rows, log>>
                          ELSE IF uid \notin DOMAIN e.mails
                          THEN /\ stats' = [stats EXCEPT !.errors = Append(@, ErrorRecord("KeyError", df_name, "(unknown)"))]
                               /\ next
                               /\ UNCHANGED <<dstSrv, log>>
                          ELSE IF size = 0
                          THEN /\ stats' = [stats EXCEPT !.skipped_mails.zero_size = @ + 1, !.processed = @ + 1]
                               /\ next
                               /\ UNCHANGED <<dstSrv, log>>
                          ELSE IF args.max_mail_size = <<>>
                          THEN Crash("TypeError", 555) /\ UNCHANGED <<dstSrv, stats, rows, log>>
                          ELSE IF size > args.max_mail_size[1]
                          THEN /\ stats' = [stats EXCEPT !.skipped_mails.max_size = @ + 1, !.processed = @ + 1]
                               /\ next
                               /\ UNCHANGED <<dstSrv, log>>
                          ELSE IF IsDuplicate(args.incremental, df_name, db.destination, msg_id)
                          THEN /\ stats' = [stats EXCEPT !.skipped_mails.already_exists = @ + 1, !.processed = @ + 1]
                               /\ next
                               /\ UNCHANGED <<dstSrv, log>>
                          ELSE IF args.dry_run
                          THEN next /\ UNCHANGED <<dstSrv, stats, log>>
                          ELSE IF LineTooLong(args.max_line_length, data.rfc822)
                          THEN /\ stats' = [stats EXCEPT !.skipped_mails.max_line_length = @ + 1, !.processed = @ + 1]
                               /\ next
                               /\ UNCHANGED <<dstSrv, log>>
                          ELSE \E answer \in AppendAnswers(dstSrv, df_name, world.faults) :
                                  /\ dstSrv' = IF answer = "NO" THEN dstSrv ELSE stored
                                  /\ log' = Append(log, command(AppendResult(answer)))
                                  /\ IF AppendFails(answer)
                                     THEN /\ stats' = failed
                                          /\ IF args.abort_on_error THEN abort ELSE next
                                     ELSE /\ stats' = [stats EXCEPT !.copied_mails = @ + 1, !.processed = @ + 1]
                                          /\ next
                   /\ Issue(LoggedOnWire(log, log'))
                   /\ UNCHANGED <<world, run, prev, source_delimiter, destination_delimiter, db, todo, name, mails, redirections, order, sf_name, df_name, buffers, fetches>>

\* Lines 619-622: the transfer loop ended without KeyboardInterrupt.
Finish == /\ pc = "folder"
          /\ order = <<>>
          /\ pc' = "logout_src"
          /\ UNCHANGED <<world, dstSrv, run, prev, exc, source_delimiter, destination_delimiter, db, stats, todo, name, mails, redirections, order, sf_name, df_name, buffers, rows, idle, log, fetches, wire>>

(***************************************************************************)
(* Logout and report (lines 624-664).                                      *)
(***************************************************************************)
\* The answers a server may give to LOGOUT: "error" raises IMAPClientError.
LogoutAnswers(faults) == IF "logout" \in faults THEN {"ok", "error"} ELSE {"ok"}

\* Lines 624-629: source.logout(); an IMAPClientError is printed.
LogoutSource == /\ pc = "logout_src"
                /\ pc' = "logout_dst"
                /\ \E answer \in LogoutAnswers(world.faults) : Issue(<<[Wire("source", "LOGOUT", 0) EXCEPT !.result = answer]>>)
                /\ UNCHANGED <<world, dstSrv, run, prev, exc, source_delimiter, destination_delimiter, db, stats, todo, name, mails, redirections, order, sf_name, df_name, buffers, rows, log, fetches>>

\* Lines 631-636: destination.logout(); an IMAPClientError is printed.
LogoutDestination == /\ pc = "logout_dst"
                     /\ pc' = "report"
                     /\ \E answer \in LogoutAnswers(world.faults) : Issue(<<[Wire("destination", "LOGOUT", 0) EXCEPT !.result = answer]>>)
                     /\ UNCHANGED <<world, dstSrv, run, prev, exc, source_delimiter, destination_delimiter, db, stats, todo, name, mails, redirections, order, sf_name, df_name, buffers, rows, log, fetches>>

\* Lines 638-664: the final report.
Report == /\ pc = "report"
          /\ pc' = "done"
          /\ UNCHANGED <<world, dstSrv, run, prev, exc, source_delimiter, destination_delimiter, db, stats, todo, name, mails, redirections, order, sf_name, df_name, buffers, rows, idle, log, fetches, wire>>

\* The process has ended.
Terminated == pc \in {"done", "crashed", "exit_login", "exit_quota", "exit_list", "exit_not_found"}

\* The exit status of the ended process: exit() of lines 212, 251, 406 and
\* 436 is called without an argument and the end of the script (line 664)
\* is reached normally, both status 0; an uncaught exception gives 1.
ExitStatus(at) == IF at = "crashed" THEN 1 ELSE 0

(***************************************************************************)
(* The environment: the user's interrupt, and running the program again.   *)
(***************************************************************************)
\* Ctrl-C.  Inside the try of lines 440-616 the handler of line 617 leads
\* to the logout; anywhere else KeyboardInterrupt is not caught.
Interrupt == /\ "interrupt" \in world.faults
             /\ pc \notin {"done", "crashed", "exit_login", "exit_quota", "exit_list", "exit_not_found"}
             /\ exc' = [type |-> "KeyboardInterrupt", line |-> 0]
             /\ pc' = IF pc \in {"folder", "buffer", "message"} THEN "logout_src" ELSE "crashed"
             /\ UNCHANGED <<world, dstSrv, run, prev, source_delimiter, destination_delimiter, db, stats, todo, name, mails, redirections, order, sf_name, df_name, buffers, rows, idle, log, fetches, wire>>

\* The transfer loop ran to its end and nothing was refused or left out.
CleanRun == /\ exc = NoException
            /\ stats.errors = <<>>
            /\ stats.skipped_mails.no_envelope = 0
            /\ \A i \in 1..Len(log) : log[i].result \in {"ok", "alreadyexists"}

\* The same command line is run again, in incremental mode, against the
\* same source and the destination as the previous run left it.
Restart == /\ pc = "done"
           /\ run < MaxRuns
           /\ args.incremental
           /\ run' = run + 1
           /\ prev' = [finished |-> TRUE, clean |-> CleanRun]
           /\ pc' = "login"
           /\ exc' = NoException
           /\ source_delimiter' = None
           /\ destination_delimiter' = None
           /\ db' = InitDb
           /\ stats' = InitStats
           /\ todo' = <<>>
           /\ name' = <<>>
           /\ mails' = <<>>
           /\ redirections' = <<>>
           /\ order' = <<>>
           /\ sf_name' = <<>>
           /\ df_name' = <<>>
           /\ buffers' = <<>>
           /\ rows' = <<>>
           /\ idle' = [source |-> FALSE, destination |-> FALSE]
           /\ log' = <<>>
           /\ fetches' = 0
           /\ wire' = <<>>
           /\ UNCHANGED <<world, dstSrv>>

\* The steps of the script.
Step == \/ Login
        \/ Quota
        \/ StartIdleDestination
        \/ SourceFolder
        \/ SourceBuffer
        \/ Handoff
        \/ DestinationFolder
        \/ DestinationBuffer
        \/ ListMode
        \/ Redirect
        \/ EndIdleSource
        \/ TransferFolder
        \/ TransferBuffer
        \/ TransferMessage
        \/ Finish
        \/ LogoutSource
        \/ LogoutDestination
        \/ Report

Next == \/ Step
        \/ Interrupt
        \/ Restart

Spec == Init /\ [][Next]_vars

\* The interpreter runs the statements after the try block (lines 624-664)
\* to the end of the script: each of them, once reached, is executed.
LiveSpec == Init /\ [][Next]_vars /\ WF_vars(LogoutSource) /\ WF_vars(LogoutDestination) /\ WF_vars(Report)

\* The runs that differ in the buffer size, with an interpreter that keeps
\* executing the script: whenever a statement can be executed, one is.
BufferSpec == BufferInit /\ [][Next]_vars /\ WF_vars(Step)

(***************************************************************************)
(* Properties.                                                             *)
(***************************************************************************)
\* The APPEND commands in the log.
Appends == {i \in 1..Len(log) : log[i].cmd = "APPEND"}

\* The transfer loop of this run ended at line 619 and the report was printed.
Completed == pc = "done" /\ exc = NoException

\* Sum of the five skipped_mails counters.
SkippedMails == stats.skipped_mails.zero_size + stats.skipped_mails.max_size + stats.skipped_mails.no_envelope + stats.skipped_mails.max_line_length + stats.skipped_mails.already_exists

\* C1: conservation of messages: in a non-dry run whose transfer loop ran
\* to its end, copied_mails plus the skipped_mails counters plus the error
\* records (each is an APPEND failure or a manifest-lookup miss) equals
\* source_mails.
C1_Conservation == (Completed /\ ~args.dry_run) => stats.copied_mails + SkippedMails + Len(stats.errors) = stats.source_mails

\* The effective denied-flags set as the documentation states it: \recent
\* plus a backslash and the lowercased token for each --denied-flags token.
C2_Denied == {fRecentLower} \cup (IF args.denied_flags = <<>> THEN {} ELSE {<<"\\">> \o Lower(Split(args.denied_flags, ",")[i]) : i \in 1..Len(Split(args.denied_flags, ","))})

\* C2: flag filtering: every APPEND passes exactly the source message's
\* flags, in order, without those whose lowercase form is a denied flag.
C2_FlagFiltering == \A i \in Appends : log[i].flags = SelectSeq(log[i].src_flags, LAMBDA f : Lower(f) \notin C2_Denied)

\* An APPEND dropped a flag written in another case than the --denied-flags
\* token, and kept another flag.
C2_Witness == \E i \in Appends : /\ args.denied_flags # <<>>
                                 /\ log[i].flags # <<>>
                                 /\ \E k \in 1..Len(log[i].src_flags) : log[i].src_flags[k] \notin Range(log[i].flags) /\ log[i].src_flags[k] \notin C2_Denied

\* C3: dry-run purity: a dry run issues no CREATE, SUBSCRIBE or APPEND and
\* leaves the destination's folders and messages as it found them.
C3_DryRunPurity == args.dry_run => (log = <<>> /\ dstSrv = world.destination.folders)

\* A dry run ended after mapping a source folder, holding mail, to a name
\* the destination does not have.
C3_Witness == args.dry_run /\ Completed /\ stats.source_mails > 0 /\ \E i \in 1..Len(db.source) : db.source[i].buffer # <<>> /\ ~OnServer(dstSrv, Rewritten(db.source[i].name, source_delimiter, destination_delimiter))

\* Every message of the folders carries an ENVELOPE with a Message-ID.
AllMessageIds(fs) == \A i \in 1..Len(fs) : \A k \in 1..Len(fs[i].mails) : fs[i].mails[k].envelope /\ fs[i].mails[k].msg_id # None

\* C4: incremental idempotence: the second of two incremental runs over
\* messages that all carry a Message-ID, after a first run that completed
\* with nothing refused or left out, issues no APPEND and reports
\* copied_mails = 0.
C4_IncrementalIdempotence == (run >= 2 /\ prev.clean /\ args.incremental /\ AllMessageIds(world.source.folders) /\ AllMessageIds(dstSrv)) => (Appends = {} /\ stats.copied_mails = 0)

\* C5: incremental de-duplication per APPEND: in incremental mode no APPEND
\* targets a folder that already holds the message's Message-ID on the
\* server when the command is issued.
C5_NoDuplicateAppend == args.incremental => \A i \in Appends : ~log[i].dup

\* A redirection rule SRC:DST (split at the first colon) matches source
\* folder S: SRC is S, or SRC ends in * and S starts with the rest of SRC.
RuleMatches(rule, S) == /\ Len(SplitRule(rule)) = 2
                        /\ \/ SplitRule(rule)[1] = S
                           \/ EndsWithStar(SplitRule(rule)[1]) /\ StartsWith(S, DropLast(SplitRule(rule)[1]))

\* The rules of the command line that match S.
MatchingRules(S) == {i \in 1..Len(args.redirect) : RuleMatches(args.redirect[i], S)}

\* The special-use flags source folder S carries.
SpecialFlagsOf(S) == Range(Entry(world.source.folders, S).flags) \cap SPECIAL_FOLDER_FLAGS

\* The folders among fs that carry one of S's special-use flags.
LinkTargets(S, fs) == {fs[i].name : i \in {j \in 1..Len(fs) : Range(fs[j].flags) \cap SpecialFlagsOf(S) # {}}}

\* C6: special-use linking: with --ignore-folder-flags off, for a source
\* folder S that no redirection rule matches and that shares a special-use
\* flag with a folder on the destination server, no CREATE is issued for S
\* and every APPEND of a message of S targets a destination folder carrying
\* such a flag.
C6_SpecialUseLinking == \A i \in 1..Len(log) : (/\ ~args.ignore_folder_flags
                                                /\ MatchingRules(log[i].sf_name) = {}
                                                /\ LinkTargets(log[i].sf_name, dstSrv) # {})
                                               => (log[i].cmd # "CREATE" /\ (log[i].cmd = "APPEND" => log[i].folder \in LinkTargets(log[i].sf_name, dstSrv)))

\* The base mapping as documented: the delimiter rewrite, prefixed with the
\* root and the destination delimiter exactly when a root is configured and
\* (merge is off, or the rewritten name is neither the root nor under it).
C7_Base(S) == LET rewritten == [i \in 1..Len(S) |-> IF S[i] = world.source.delimiter THEN world.destination.delimiter ELSE S[i]]
                  R == args.destination_root
                  prefix == R \o <<world.destination.delimiter>>
              IN  IF R # <<>> /\ (~args.destination_root_merge \/ (rewritten # R /\ ~StartsWith(rewritten, prefix))) THEN prefix \o rewritten ELSE rewritten

\* C7: base folder mapping: the mapping of a source folder is always
\* computed (line 443 never fails, whatever the destination LIST returned),
\* and for a folder that no redirection matches and no special-use link
\* applies to, it is the documented base mapping.
C7_BaseMapping == /\ ~(pc = "crashed" /\ exc.line = 443)
                  /\ (sf_name # <<>> /\ MatchingRules(sf_name) = {} /\ (args.ignore_folder_flags \/ LinkTargets(sf_name, db.destination) = {})) => df_name = C7_Base(sf_name)

\* C8: redirection precedence: when exactly one rule matches the source
\* folder being transferred, its destination name is that rule's DST; when
\* no rule matches and a special-use link applies, it is a linked folder of
\* the destination manifest.
C8_RedirectionPrecedence == sf_name # <<>> => /\ Cardinality(MatchingRules(sf_name)) = 1 => df_name = SplitRule(args.redirect[CHOOSE i \in MatchingRules(sf_name) : TRUE])[2]
                                              /\ (MatchingRules(sf_name) = {} /\ ~args.ignore_folder_flags /\ LinkTargets(sf_name, db.destination) # {}) => df_name \in LinkTargets(sf_name, db.destination)

\* A folder with a special-use flag the destination manifest also has, and a
\* destination root, was redirected by the single rule matching it.
C8_Witness == /\ sf_name # <<>>
              /\ Cardinality(MatchingRules(sf_name)) = 1
              /\ LinkTargets(sf_name, db.destination) # {}
              /\ ~args.ignore_folder_flags
              /\ df_name \notin LinkTargets(sf_name, db.destination)
              /\ \E i \in Appends : log[i].folder = df_name

\* The quota pre-check fails as documented.
QuotaInsufficient == world.quota.source_cap /\ world.quota.destination_cap /\ world.quota.destination_limit - world.quota.destination_usage < world.quota.source_usage

\* C9: quota short-circuit: with both sides advertising QUOTA, too little
\* free space and no --ignore-quota, the run ends at the quota check with
\* nothing issued on the destination; otherwise the quota check never ends
\* the run.
C9_QuotaShortCircuit == /\ (QuotaInsufficient /\ ~args.ignore_quota) => (pc \in {"login", "exit_login", "quota", "exit_quota"} /\ log = <<>> /\ fetches = 0)
                        /\ ~(QuotaInsufficient /\ ~args.ignore_quota) => pc # "exit_quota"

\* The run was stopped by the quota check.
C9_Witness == pc = "exit_quota" /\ QuotaInsufficient /\ ~args.ignore_quota

\* A rule of the command line is unresolved against the source manifest: a
\* literal SRC that is no key of it, or a wildcard that matches no key.
Unresolved(rule) == /\ Len(SplitRule(rule)) = 2
                    /\ ~\E i \in 1..Len(db.source) : RuleMatches(rule, db.source[i].name)

\* C10: unresolved redirection gate: with an unresolved rule the run never
\* enters the transfer phase or the logout, and issues no CREATE, SUBSCRIBE,
\* APPEND or transfer FETCH.
C10_UnresolvedGate == (\E i \in 1..Len(args.redirect) : Unresolved(args.redirect[i])) => (log = <<>> /\ fetches = 0 /\ pc \notin {"end_idle", "folder", "buffer", "message", "logout_src", "logout_dst", "report", "done"})

\* The run exited at line 436 because a wildcard rule matched no folder
\* while another rule did resolve.
C10_Witness == pc = "exit_not_found" /\ \E i, j \in 1..Len(args.redirect) : Unresolved(args.redirect[i]) /\ EndsWithStar(SplitRule(args.redirect[i])[1]) /\ ~Unresolved(args.redirect[j])

\* The source server's message behind an APPEND of the log.
SourceMessage(c) == Entry(world.source.folders, c.sf_name).mails[c.uid]

\* C11: message fidelity: every APPEND targets the destination name computed
\* for the message's source folder, carries the RFC822 payload of the
\* message's UID and passes its INTERNALDATE as the message time; a message
\* the destination stored has the source's INTERNALDATE.
C11_MessageFidelity == \A i \in Appends : /\ log[i].folder = DfName(Entry(db.source, log[i].sf_name), args, source_delimiter, destination_delimiter, db.destination, redirections)
                                          /\ log[i].rfc822 = SourceMessage(log[i]).rfc822
                                          /\ log[i].date = SourceMessage(log[i]).date
                                          /\ log[i].result # "error" => \E k \in 1..Len(Entry(dstSrv, log[i].folder).mails) : /\ Entry(dstSrv, log[i].folder).mails[k].rfc822 = SourceMessage(log[i]).rfc822
                                                                                                                             /\ Entry(dstSrv, log[i].folder).mails[k].msg_id = log[i].msg_id
                                                                                                                             /\ Entry(dstSrv, log[i].folder).mails[k].date = SourceMessage(log[i]).date

\* Two messages with different payloads and dates, the second being UID 2
\* of its folder, were stored on the destination.
C11_Witness == \E i, j \in Appends : /\ i < j
                                     /\ log[i].result = "ok" /\ log[j].result = "ok"
                                     /\ log[i].date # log[j].date
                                     /\ log[i].rfc822 # log[j].rfc822
                                     /\ log[j].uid = 2

\* C12: exit status: a run stopped by a failed connection or login, by the
\* quota check, by an unresolved or unparsable redirection rule, or whose
\* transfer was aborted, ends with a non-zero exit status.
C12_ExitStatus == (Terminated /\ (pc \in {"exit_login", "exit_quota", "exit_not_found"} \/ exc.type \in {"KeyboardInterrupt", "NameError"})) => ExitStatus(pc) # 0

\* The CREATE and APPEND commands on the wire that failed: refused by the
\* server, or an APPEND answered with an unrecognised text.
Failures == {i \in 1..Len(wire) : wire[i].cmd \in {"CREATE", "APPEND"} /\ wire[i].result \in {"error", "unknown"}}

\* Both sessions were logged out after every command on the wire so far.
LoggedOut == /\ Len(wire) >= 2
             /\ wire[Len(wire) - 1].s = "source" /\ wire[Len(wire) - 1].cmd = "LOGOUT"
             /\ wire[Len(wire)].s = "destination" /\ wire[Len(wire)].cmd = "LOGOUT"

\* C13: abort-on-error with clean teardown: with --abort-on-error, nothing
\* but LOGOUT is issued after the first failed CREATE or APPEND, and such a
\* failure is always followed by the LOGOUT of both sessions and the report.
C13_AbortOnError == /\ [](args.abort_on_error => \A i \in Failures : \A j \in (i + 1)..Len(wire) : wire[j].cmd = "LOGOUT")
                    /\ (args.abort_on_error /\ Failures # {}) ~> (pc = "done" /\ LoggedOut /\ Failures # {})

\* An APPEND answered with an unrecognised text while the folder had more
\* messages to transfer aborted the run, which ended logged out.
C13_Witness == /\ args.abort_on_error
               /\ pc = "done"
               /\ LoggedOut
               /\ \E i \in Failures : wire[i].cmd = "APPEND" /\ wire[i].result = "unknown"
               /\ rows # <<>> /\ Tail(rows) # <<>>

\* C14 as stated: from the first command of the source enumeration on,
\* every LIST, SELECT, SEARCH, FETCH, CREATE, SUBSCRIBE and APPEND is issued
\* while the other session is in IDLE.
C14_IdleInvariant == \A i \in 1..Len(wire) : (/\ wire[i].cmd \in {"LIST", "SELECT", "SEARCH", "FETCH", "CREATE", "SUBSCRIBE", "APPEND"}
                                              /\ \E j \in 1..i : wire[j].part = PartOf("src_list"))
                                             => wire[i].idle[Other(wire[i].s)]

\* C14: idle invariant of the enumerations: every command of the source
\* enumeration is issued on the source while the destination is in IDLE,
\* every command of the destination enumeration is issued on the
\* destination while the source is in IDLE, and every command of the
\* transfer phase is issued while neither session is in IDLE.
C14_IdleDuringEnumeration == \A i \in 1..Len(wire) : /\ wire[i].part = PartOf("src_list") => (wire[i].s = "source" /\ wire[i].idle = [source |-> FALSE, destination |-> TRUE])
                                                     /\ wire[i].part = PartOf("dst_list") => (wire[i].s = "destination" /\ wire[i].idle = [source |-> TRUE, destination |-> FALSE])
                                                     /\ wire[i].part = PartOf("folder") => wire[i].idle = NoIdle

\* A run fetched metadata on the source, then on the destination, and
\* issued an APPEND in the transfer phase.
C14_Witness == \E i, j, k \in 1..Len(wire) : /\ i < j /\ j < k
                                             /\ wire[i].part = PartOf("src_buf") /\ wire[i].cmd = "FETCH"
                                             /\ wire[j].part = PartOf("dst_buf") /\ wire[j].cmd = "FETCH"
                                             /\ wire[k].part = PartOf("message") /\ wire[k].cmd = "APPEND"

\* The LOGOUT commands this run issued on that session.
Logouts(s) == {i \in 1..Len(wire) : wire[i].cmd = "LOGOUT" /\ wire[i].s = s}

\* C15 as stated: a run that opened a session and ended on one of the exit
\* paths (normal end, list mode, login failure on the other side, quota
\* abort, unresolved-redirection abort, abort-on-error) issued exactly one
\* LOGOUT on every session it opened.
C15_SessionLifecycle == (pc \in {"done", "exit_login", "exit_quota", "exit_list", "exit_not_found"})
                        => \A s \in {"source", "destination"} : world.login[s] => Cardinality(Logouts(s)) = 1

\* C16 as stated: once the enumeration of the source has begun, a user
\* interrupt leaves the run on its way to the logout or past it, and a run
\* that ended after an interrupt ended with the LOGOUT on both sessions.
C16_Cancellation == (exc.type = "KeyboardInterrupt" /\ \E i \in 1..Len(wire) : wire[i].part = PartOf("src_list"))
                    => /\ pc \in {"logout_src", "logout_dst", "report", "done"}
                       /\ pc = "done" => LoggedOut

\* C17: IDLE protocol discipline: IDLE is sent on a session that is not in
\* IDLE and whose previous command, the one just before it on the wire, is
\* a read-only SELECT; DONE is sent on a session that is in IDLE; every
\* other command is sent on a session that is not in IDLE; and neither
\* session is in IDLE during the transfer phase and the logout.
C17_IdleDiscipline == /\ \A i \in 1..Len(wire) : CASE wire[i].cmd = "IDLE" -> /\ ~wire[i].idle[wire[i].s]
                                                                              /\ i > 1
                                                                              /\ wire[i - 1].s = wire[i].s
                                                                              /\ wire[i - 1].cmd = "SELECT"
                                                                              /\ wire[i - 1].readonly
                                                   [] wire[i].cmd = "DONE" -> wire[i].idle[wire[i].s]
                                                   [] OTHER -> ~wire[i].idle[wire[i].s]
                      /\ pc \in {"folder", "buffer", "message", "logout_src", "logout_dst"} => idle = NoIdle

\* Both sessions have been in IDLE and left it, the transfer issued an
\* APPEND, and the logout is about to begin.
C17_Witness == /\ pc = "logout_src"
               /\ \A s \in {"source", "destination"} : \E i, j \in 1..Len(wire) : /\ i < j
                                                                                  /\ wire[i].s = s /\ wire[i].cmd = "IDLE"
                                                                                  /\ wire[j].s = s /\ wire[j].cmd = "DONE"
               /\ \E k \in 1..Len(wire) : wire[k].cmd = "APPEND"

\* C18 as stated: while a session is in IDLE the enumeration loop on the
\* other session goes through at most 10,000 metadata rows before that IDLE
\* is ended.
C18_KeepaliveCadence == \A i \in 1..Len(wire) : \A s \in {"source", "destination"} : wire[i].quiet[s] <= IdleRefreshRows

\* The messages the transfer FETCH commands of this run returned.
Fetched == SumSeq([i \in 1..Len(wire) |-> IF wire[i].cmd = "FETCH" /\ wire[i].part = PartOf("buffer") THEN wire[i].n ELSE 0])

\* C19 as stated: the processed counter never exceeds the number of
\* messages the transfer FETCH commands returned, and equals it when the
\* transfer has completed.
C19_ProcessedCounter == /\ stats.processed <= Fetched
                        /\ Completed => stats.processed = Fetched

\* The six outcome counters: the four skip counters of the ladder,
\* copied_mails, and the number of error records.
Outcomes(st) == <<st.skipped_mails.zero_size, st.skipped_mails.max_size, st.skipped_mails.already_exists, st.skipped_mails.max_line_length, st.copied_mails, Len(st.errors)>>

\* The outcome counters after the k-th of them went up by one.
Bumped(o, k) == [i \in 1..6 |-> IF i = k THEN o[i] + 1 ELSE o[i]]

\* The first rule of the ladder that matches the fetched row at the head of
\* rows: 1 zero size, 2 larger than --max-mail-size, 3 incremental
\* duplicate, 4 a line longer than --max-line-length, 5 none of them.
FirstRule == LET m == Entry(db.source, sf_name).mails[Head(rows)]
             IN  CASE m.size = 0 -> 1
                   [] args.max_mail_size # <<>> /\ m.size > args.max_mail_size[1] -> 2
                   [] IsDuplicate(args.incremental, df_name, db.destination, m.msg_id) -> 3
                   [] LineTooLong(args.max_line_length, Entry(world.source.folders, sf_name).mails[Head(rows)].rfc822) -> 4
                   [] OTHER -> 5

\* C20 as stated: the script's step on a fetched row that has a manifest
\* entry raises exactly one outcome counter, the one of the first matching
\* rule (copied_mails or the error records for the APPEND), and issues an
\* APPEND exactly when none of the four skip rules matches.
C20_SkipLadder == [][(/\ pc = "message"
                      /\ Head(rows) \in DOMAIN Entry(db.source, sf_name).mails
                      /\ ~(exc'.type = "KeyboardInterrupt" /\ exc'.line = 0))
                     => IF FirstRule = 5
                        THEN /\ Outcomes(stats') \in {Bumped(Outcomes(stats), 5), Bumped(Outcomes(stats), 6)}
                             /\ Len(log') = Len(log) + 1
                             /\ log'[Len(log')].cmd = "APPEND"
                        ELSE /\ Outcomes(stats') = Bumped(Outcomes(stats), FirstRule)
                             /\ log' = log]_vars

\* C21 as stated: a message is counted under skipped_mails.max_size only
\* when --max-mail-size was supplied, and a run without --max-mail-size
\* does not fail at the size rung of the ladder.
C21_UnsetMaxMailSize == /\ stats.skipped_mails.max_size > 0 => args.max_mail_size # <<>>
                        /\ args.max_mail_size = <<>> => ~(pc = "crashed" /\ exc = [type |-> "TypeError", line |-> 555])

\* C22 as stated: a row without ENVELOPE never ends an enumeration, on
\* either side, and no folder's UID->metadata map of the source holds a
\* UID whose row had no ENVELOPE.
C22_NoEnvelopeHandling == /\ ~(pc = "crashed" /\ exc = [type |-> "KeyError", line |-> 377])
                          /\ \A i \in 1..Len(db.source) : \A u \in DOMAIN db.source[i].mails : Entry(world.source.folders, db.source[i].name).mails[u].envelope

\* C23 as stated: with --abort-on-error, once an error record exists the
\* transfer is over: the script is not in the folder, buffer or message
\* loop any more, so it issues no further FETCH or APPEND.
C23_AbortOnEveryError == (args.abort_on_error /\ stats.errors # <<>>) => pc \notin {"folder", "buffer", "message"}

RECURSIVE Flat(_)
\* The concatenation of a list of buffers.
Flat(bs) == IF bs = <<>> THEN <<>> ELSE Head(bs) \o Flat(Tail(bs))

\* The row counts of the FETCH commands issued since the last SELECT.
FetchedSinceSelect == LET sel == CHOOSE i \in 0..Len(wire) : /\ i > 0 => wire[i].cmd = "SELECT"
                                                             /\ \A j \in (i + 1)..Len(wire) : wire[j].cmd # "SELECT"
                          fs == SelectSeq(SubSeq(wire, sel + 1, Len(wire)), LAMBDA c : c.cmd = "FETCH")
                      IN  [i \in 1..Len(fs) |-> fs[i].n]

\* C24: buffer partition: with a buffer size B >= 1, in every state of a
\* run that has not died, the buffers recorded for a source folder,
\* followed by the UIDs still to be sliced, are the SEARCH result; every
\* buffer is non-empty and has at most B UIDs, and exactly B unless it is
\* the last; and in the transfer the buffers of the folder are FETCHed one
\* at a time in the recorded order.
C24_BufferPartition == (args.buffer_size >= 1 /\ pc # "crashed")
                       => /\ \A i \in 1..Len(db.source) :
                                LET e == db.source[i]
                                    rest == IF pc = "src_buf" /\ name = e.name THEN mails ELSE <<>>
                                IN  /\ Flat(e.buffer) \o rest = Uids(Entry(world.source.folders, e.name))
                                    /\ \A k \in 1..Len(e.buffer) : /\ e.buffer[k] # <<>>
                                                                   /\ Len(e.buffer[k]) <= args.buffer_size
                                                                   /\ (k < Len(e.buffer) \/ rest # <<>>) => Len(e.buffer[k]) = args.buffer_size
                          /\ pc \in {"buffer", "message"}
                                => LET all == Entry(db.source, sf_name).buffer
                                       k == Len(all) - Len(buffers)
                                   IN  /\ k >= 0
                                       /\ buffers = SubSeq(all, k + 1, Len(all))
                                       /\ FetchedSinceSelect = [i \in 1..k |-> Len(all[i])]
                                       /\ pc = "message" => (k >= 1 /\ rows # <<>> /\ rows = SubSeq(all[k], Len(all[k]) - Len(rows) + 1, Len(all[k])))

\* A folder of three UIDs was sliced with B = 2 into a full buffer and a
\* shorter last one, and the transfer has FETCHed both, in that order.
C24_Witness == /\ args.buffer_size = 2
               /\ pc = "message"
               /\ Entry(db.source, sf_name).buffer = <<<<1, 2>>, <<3>>>>
               /\ buffers = <<>>
               /\ rows = <<3>>
               /\ FetchedSinceSelect = <<2, 1>>

\* The CREATE commands of this run that the destination carried out.
Created_ok == {i \in 1..Len(log) : log[i].cmd = "CREATE" /\ log[i].result = "ok"}

\* C25 as stated: a SUBSCRIBE comes directly after a successful CREATE of
\* the same folder and only when destination-no-subscribe is off;
\* copied_folders is the number of folders successfully CREATEd; and no
\* message of a source folder whose CREATE failed is APPENDed.
C25_CreateOutcomes == /\ \A i \in 1..Len(log) : log[i].cmd = "SUBSCRIBE" => /\ ~args.destination_no_subscribe
                                                                            /\ i - 1 \in Created_ok
                                                                            /\ log[i - 1].folder = log[i].folder
                      /\ stats.copied_folders = Cardinality(Created_ok)
                      /\ \A i, j \in 1..Len(log) : (log[i].cmd = "CREATE" /\ log[i].result = "error" /\ log[j].cmd = "APPEND") => log[j].sf_name # log[i].sf_name

\* C26 as stated: every run that starts comes to an end: the script
\* reaches the end of the report, a fatal exit, or dies.
C26_Termination == (pc = "login") ~> Terminated

=============================================================================
